---- MODULE Spec2Model ----
(***************************************************************************)
(* State-machine model of moto/elasticbeanstalk/models.py: the EBBackend   *)
(* registry of Applications, their Environments and the environments'      *)
(* tags.  Python dicts are ordered sequences of <key, value> entries, tag  *)
(* lists and tag dicts are objects in a heap so that aliasing is visible.  *)
(***************************************************************************)
EXTENDS Naturals, Sequences, FiniteSets, TLC

VARIABLES
    region,        \* EBBackend.region
    applications,  \* EBBackend.applications: ordered dict name -> Application
    tagLists,      \* heap of Python list objects: list id -> sequence of tag-dict ids
    tagObjs,       \* heap of Python dict objects {"key": .., "value": ..}
    held,          \* the Environment object the caller kept from create_environment
    last,          \* the last call made on the backend and how it ended
    eb_backends,   \* the BackendDict: region -> id of its EBBackend, None before the first lookup
    backends,      \* heap of the EBBackend objects the BackendDict made
    refs,          \* the EBBackend each caller got from eb_backends and kept
    threads        \* where each thread is in the create_* call it runs on the backend

dirvars == <<eb_backends, backends, refs>>

vars == <<region, applications, tagLists, tagObjs, held, last, eb_backends, backends, refs,
          threads>>

(***************************************************************************)
(* Bounds and input domains                                                *)
(***************************************************************************)
MaxTagObjs == 2     \* tag dicts alive in the heap
MaxLists == 2       \* tag lists alive in the heap
MaxInitTags == 2    \* length of the tag list given to create_environment
MaxAdd == 2         \* length of tags_to_add
MaxRemove == 1      \* length of tags_to_remove

Regions == {"us-east-1", "eu-west-1"}
Callers == {"c1", "c2"}
AppNames == {"a", "a/b"}
EnvNames == {"c", "b/c"}
Stacks == {"64bit Amazon Linux"}
Keys == {"k1", "k2"}
Values == {"1", "2"}
\* the smaller domains of the specifications that are not about the tags
FewKeys == {"k1"}
FewValues == {"1"}
OneApp == {"a"}
OneEnv == {"c"}

None == 0           \* Python None, as a reference
ACCOUNT_ID == "123456789012"

\* the exceptions the calls end with; "none" is a normal return
NoError == "none"
InvalidParameterValueError == "InvalidParameterValueError"
ResourceNotFoundException == "ResourceNotFoundException"
TypeError == "TypeError"
ReferenceError == "ReferenceError"

\* the message templates of the exceptions
AlreadyExists == "Application {} already exists."
NoApplication == "No Application named '{}' found."
NotFoundForArn == "Resource not found for ARN '{}'."

(***************************************************************************)
(* Python's ordered dict                                                   *)
(***************************************************************************)
DictHas(d, k) == \E i \in 1..Len(d) : d[i].key = k

DictIdx(d, k) == CHOOSE i \in 1..Len(d) : d[i].key = k

DictGet(d, k) == d[DictIdx(d, k)].value

\* d[k] = v: a new key goes to the end, an existing key keeps its place
DictSet(d, k, v) ==
    IF DictHas(d, k)
    THEN [d EXCEPT ![DictIdx(d, k)] = [key |-> k, value |-> v]]
    ELSE Append(d, [key |-> k, value |-> v])

(***************************************************************************)
(* Identifiers                                                             *)
(***************************************************************************)
make_arn(reg, account_id, resource_type, resource_path) ==
    "arn:aws:elasticbeanstalk:" \o reg \o ":" \o account_id \o ":"
        \o resource_type \o "/" \o resource_path

\* Environment.environment_arn of an environment whose application is alive
environment_arn(reg, env) ==
    make_arn(reg, ACCOUNT_ID, "environment",
             env.application \o "/" \o env.environment_name)

(***************************************************************************)
(* Application and Environment objects                                     *)
(***************************************************************************)
\* an Environment that takes the solution stack's name for its own
Environment_misnamed(application, environment_name, solution_stack_name, tags) ==
    [application |-> application.application_name,
     environment_name |-> solution_stack_name,
     solution_stack_name |-> solution_stack_name,
     tags |-> tags]

Environment(application, environment_name, solution_stack_name, tags) ==
    [application |-> application.application_name,
     environment_name |-> environment_name,
     solution_stack_name |-> solution_stack_name,
     tags |-> tags]

Application(application_name) ==
    [application_name |-> application_name, environments |-> <<>>]

\* Environment.application_name: the name of the application it was made for
env_application_name(env) == env.application

\* Application.region and Environment.region: the region of the backend, reg,
\* that made the application
app_region(reg, app) == reg

env_region(reg, env) == reg

\* create_environment without the check of line 47
App_create_environment_unchecked(app, environment_name, solution_stack_name, tags) ==
    [err |-> NoError, msg |-> "",
     app |-> [app EXCEPT !.environments =
                DictSet(app.environments, environment_name,
                        Environment(app, environment_name,
                                    solution_stack_name, tags))]]

\* Application.create_environment: the exception and the application after it
App_create_environment(app, environment_name, solution_stack_name, tags) ==
    IF DictHas(app.environments, environment_name)
    THEN [err |-> InvalidParameterValueError, msg |-> "", app |-> app]
    ELSE [err |-> NoError, msg |-> "",
          app |-> [app EXCEPT !.environments =
                     DictSet(app.environments, environment_name,
                             Environment(app, environment_name,
                                         solution_stack_name, tags))]]

(***************************************************************************)
(* EBBackend                                                               *)
(***************************************************************************)
\* create_application without the check of line 91
create_application_unchecked(apps, application_name) ==
    [err |-> NoError, msg |-> "",
     apps |-> DictSet(apps, application_name, Application(application_name))]

\* EBBackend.create_application: the exception and the applications after it
create_application(apps, application_name) ==
    IF DictHas(apps, application_name)
    THEN [err |-> InvalidParameterValueError, msg |-> AlreadyExists, apps |-> apps]
    ELSE [err |-> NoError, msg |-> "",
          apps |-> DictSet(apps, application_name, Application(application_name))]

\* create_environment raising ResourceNotFoundException for a missing application
create_environment_not_found(apps, application_name, environment_name, stack_name, tags) ==
    IF ~DictHas(apps, application_name)
    THEN [err |-> ResourceNotFoundException, msg |-> NoApplication, apps |-> apps]
    ELSE LET r == App_create_environment(DictGet(apps, application_name),
                                         environment_name, stack_name, tags)
         IN  [err |-> r.err, msg |-> r.msg,
              apps |-> [apps EXCEPT ![DictIdx(apps, application_name)].value = r.app]]

\* lines 95-97 of create_application, after the check of line 91
insert_application(apps, application_name) ==
    DictSet(apps, application_name, Application(application_name))

\* lines 49-58 of Application.create_environment, after the check of line 47
insert_environment(app, environment_name, solution_stack_name, tags) ==
    [app EXCEPT !.environments =
        DictSet(app.environments, environment_name,
                Environment(app, environment_name, solution_stack_name, tags))]

\* EBBackend.create_environment
create_environment(apps, application_name, environment_name, stack_name, tags) ==
    IF ~DictHas(apps, application_name)
    THEN [err |-> InvalidParameterValueError, msg |-> NoApplication, apps |-> apps]
    ELSE LET r == App_create_environment(DictGet(apps, application_name),
                                         environment_name, stack_name, tags)
         IN  [err |-> r.err, msg |-> r.msg,
              apps |-> [apps EXCEPT ![DictIdx(apps, application_name)].value = r.app]]

\* EBBackend.describe_applications: the values of the dict, in its order
describe_applications(apps) == [i \in 1..Len(apps) |-> apps[i].value]

\* EBBackend.describe_environments
RECURSIVE describe_environments_from(_, _)
describe_environments_from(apps, i) ==
    IF i > Len(apps) THEN <<>>
    ELSE [j \in 1..Len(apps[i].value.environments) |->
             apps[i].value.environments[j].value]
         \o describe_environments_from(apps, i + 1)

\* the environments listed from the last one to the first
describe_environments_reversed(apps) ==
    LET envs == describe_environments_from(apps, 1)
    IN  [k \in 1..Len(envs) |-> envs[Len(envs) + 1 - k]]

describe_environments(apps) == describe_environments_from(apps, 1)

NumEnvs(apps) == Len(describe_environments(apps))

\* EBBackend._find_environment_by_arn: the position <<i, j>> of the first
\* environment of the scan whose arn is the given one, <<0, 0>> for KeyError
RECURSIVE find_scan(_, _, _, _, _)
find_scan(reg, apps, arn, i, j) ==
    IF i > Len(apps) THEN <<0, 0>>
    ELSE IF j > Len(apps[i].value.environments)
         THEN find_scan(reg, apps, arn, i + 1, 1)
         ELSE IF environment_arn(reg, apps[i].value.environments[j].value) = arn
              THEN <<i, j>>
              ELSE find_scan(reg, apps, arn, i, j + 1)

\* the scan returning the last environment with the arn instead of the first
RECURSIVE find_scan_last(_, _, _, _, _, _)
find_scan_last(reg, apps, arn, i, j, found) ==
    IF i > Len(apps) THEN found
    ELSE IF j > Len(apps[i].value.environments)
         THEN find_scan_last(reg, apps, arn, i + 1, 1, found)
         ELSE find_scan_last(reg, apps, arn, i, j + 1,
                  IF environment_arn(reg, apps[i].value.environments[j].value) = arn
                  THEN <<i, j>> ELSE found)

find_last_environment_by_arn(reg, apps, arn) ==
    find_scan_last(reg, apps, arn, 1, 1, <<0, 0>>)

find_environment_by_arn(reg, apps, arn) == find_scan(reg, apps, arn, 1, 1)

EnvAt(apps, pos) == apps[pos[1]].value.environments[pos[2]].value

(***************************************************************************)
(* Tags: update_tags_for_resource on the heap                              *)
(***************************************************************************)
\* a tag of tags_to_add is a new dict (ref = None) or a dict the caller
\* already passed to the backend before (ref = its id in tagObjs)
tag_key(objs, tag) == IF tag.ref = None THEN tag.key ELSE objs[tag.ref].key

tag_value(objs, tag) == IF tag.ref = None THEN tag.value ELSE objs[tag.ref].value

\* next((t for t in res.tags if t["key"] == key), None): the position in the
\* list of the first tag with the key, 0 for None
RECURSIVE existing_tag_from(_, _, _, _)
existing_tag_from(objs, lst, key, p) ==
    IF p > Len(lst) THEN 0
    ELSE IF objs[lst[p]].key = key THEN p
         ELSE existing_tag_from(objs, lst, key, p + 1)

existing_tag(objs, lst, key) == existing_tag_from(objs, lst, key, 1)

\* one round of the loop over tags_to_add, on the list with id l
add_tag(h, l, tag) ==
    LET key == tag_key(h.objs, tag)
        value == tag_value(h.objs, tag)
        p == existing_tag(h.objs, h.lists[l], key)
    IN  IF p = 0
        THEN IF tag.ref = None
             THEN [h EXCEPT !.objs = Append(h.objs, [key |-> key, value |-> value]),
                            !.lists[l] = Append(h.lists[l], Len(h.objs) + 1),
                            !.appended = h.appended + 1]
             ELSE [h EXCEPT !.lists[l] = Append(h.lists[l], tag.ref),
                            !.appended = h.appended + 1]
        ELSE [h EXCEPT !.objs[h.lists[l][p]].value = value,
                       !.overwritten = h.overwritten + 1]

RECURSIVE add_tags(_, _, _, _)
add_tags(h, l, tags_to_add, i) ==
    IF i > Len(tags_to_add) THEN h
    ELSE add_tags(add_tag(h, l, tags_to_add[i]), l, tags_to_add, i + 1)

\* list.remove of the element at position p
RemoveAt(lst, p) == [q \in 1..(Len(lst) - 1) |-> IF q < p THEN lst[q] ELSE lst[q + 1]]

\* one round of the loop over tags_to_remove
remove_tag(h, l, key) ==
    LET p == existing_tag(h.objs, h.lists[l], key)
    IN  IF p = 0 THEN h
        ELSE [h EXCEPT !.lists[l] = RemoveAt(h.lists[l], p),
                       !.removed = h.removed + 1]

RECURSIVE remove_tags(_, _, _, _)
remove_tags(h, l, tags_to_remove, i) ==
    IF i > Len(tags_to_remove) THEN h
    ELSE remove_tags(remove_tag(h, l, tags_to_remove[i]), l, tags_to_remove, i + 1)

Heap(objs, lists) ==
    [objs |-> objs, lists |-> lists, err |-> NoError, msg |-> "", res |-> <<0, 0>>,
     appended |-> 0, overwritten |-> 0, removed |-> 0]

\* EBBackend.update_tags_for_resource: the exception, the environment found
\* and the heap after the call
update_tags_for_resource(reg, apps, objs, lists, resource_arn, tags_to_add, tags_to_remove) ==
    LET res == find_environment_by_arn(reg, apps, resource_arn)
        h0 == [Heap(objs, lists) EXCEPT !.res = res]
    IN  IF res = <<0, 0>>
        THEN [h0 EXCEPT !.err = ResourceNotFoundException, !.msg = NotFoundForArn]
        ELSE LET l == EnvAt(apps, res).tags
             IN  IF l = None
                 THEN \* iterating res.tags raises in the first round of either loop
                      IF Len(tags_to_add) > 0 \/ Len(tags_to_remove) > 0
                      THEN [h0 EXCEPT !.err = TypeError]
                      ELSE h0
                 ELSE remove_tags(add_tags(h0, l, tags_to_add, 1), l, tags_to_remove, 1)

\* EBBackend.list_tags_for_resource: the exception, the environment found and
\* the ResourceTags returned (a reference to the environment's own list)
list_tags_for_resource(reg, apps, resource_arn) ==
    LET res == find_environment_by_arn(reg, apps, resource_arn)
    IN  IF res = <<0, 0>>
        THEN [err |-> ResourceNotFoundException, msg |-> NotFoundForArn,
              res |-> res, ResourceTags |-> None]
        ELSE [err |-> NoError, msg |-> "", res |-> res, ResourceTags |-> EnvAt(apps, res).tags]

\* EBBackend.__init__
EBBackend(reg) == [region |-> reg, applications |-> <<>>]

\* a reset that clears the applications in place and leaves the first one
reset_leaving_one(reg, apps) ==
    [region |-> reg, applications |-> SubSeq(apps, 1, IF Len(apps) > 0 THEN 1 ELSE 0)]

\* a reset that does not pass the region it saved to __init__
reset_losing_region(reg, apps) == [region |-> "", applications |-> <<>>]

\* EBBackend.reset: the region and the applications after self.__init__(region)
reset(reg, apps) == [region |-> reg, applications |-> <<>>]

\* eb_backends[reg]: the BackendDict makes the EBBackend of a region at the
\* first lookup and returns that object at every later one
backend_get(table, heap, reg) ==
    IF table[reg] # None
    THEN [table |-> table, heap |-> heap, id |-> table[reg]]
    ELSE [table |-> [table EXCEPT ![reg] = Len(heap) + 1],
          heap |-> Append(heap, EBBackend(reg)),
          id |-> Len(heap) + 1]

(***************************************************************************)
(* The caller's view                                                       *)
(***************************************************************************)
\* a call's outcome: the exception raised and its message template, the
\* environment created or the one an identifier resolved to, which branches
\* the tag loops took, how many environments a reset dropped and what a
\* describe_* or list_tags_for_resource call returned
NoLast == [op |-> "init", err |-> NoError, msg |-> "",
           res |-> <<0, 0>>, appended |-> 0, overwritten |-> 0, removed |-> 0,
           dropped |-> 0, returned |-> <<>>]

Call(op, r) == [NoLast EXCEPT !.op = op, !.err = r.err, !.msg = r.msg]

NoHeld == [kept |-> FALSE, application |-> "", environment_name |-> "",
           arn |-> "", holds_app |-> FALSE, app_alive |-> FALSE]

NoRef == [region |-> "", id |-> None]

\* a thread: the line of models.py it stands before ("idle" before its first
\* call, "returned" after a call), the call and its names, whether the
\* Application it looked up is still the one registered, how the call ended
Idle == [pc |-> "idle", op |-> "", application_name |-> "", environment_name |-> "",
         orphan |-> FALSE, err |-> NoError]

\* Environment.environment_arn of the environment the caller kept: the weak
\* proxy of a collected application raises ReferenceError
held_environment_arn ==
    IF held.app_alive
    THEN make_arn(region, ACCOUNT_ID, "environment",
                  held.application \o "/" \o held.environment_name)
    ELSE ReferenceError

\* the sequences of length at most n over the set S
RECURSIVE SeqsUpTo(_, _)
SeqsUpTo(S, n) ==
    IF n = 0 THEN {<<>>}
    ELSE LET shorter == SeqsUpTo(S, n - 1)
         IN  shorter \cup {Append(s, x) : s \in shorter, x \in S}

NewTags == [key : Keys, value : Values]

FewTags == [key : FewKeys, value : FewValues]

\* what a caller can pass as tags of create_environment: nothing (the default
\* None), a new list of at most n new tag dicts out of T, or one of the lists
\* A it passed before
NoTags == [kind |-> "none", tags |-> <<>>, list |-> None]

TagsArgs(T, n, A) ==
    {NoTags}
    \cup {[kind |-> "new", tags |-> s, list |-> None] : s \in SeqsUpTo(T, n)}
    \cup {[kind |-> "alias", tags |-> <<>>, list |-> l] : l \in A}

\* what a caller can pass as tags_to_add: at most n new tag dicts out of T, or
\* one of the dicts R it passed before
AddArgs(T, n, R) ==
    SeqsUpTo({[ref |-> None, key |-> t.key, value |-> t.value] : t \in T}, n)
    \cup {<<[ref |-> m, key |-> "", value |-> ""]>> : m \in R}

\* the identifiers a caller asks for: those of the environments named E of the
\* applications named A in the backend's region, and one of no region
ArnsOf(A, E) ==
    {make_arn(region, ACCOUNT_ID, "environment", a \o "/" \o e) : a \in A, e \in E}
    \cup {make_arn("", ACCOUNT_ID, "environment", "a/c")}

Arns == ArnsOf(AppNames, EnvNames)

TypeOK ==
    /\ region \in Regions
    /\ Len(applications) <= Cardinality(AppNames)
    /\ Len(tagLists) <= MaxLists
    /\ Len(tagObjs) <= MaxTagObjs

Init ==
    /\ region \in Regions
    /\ applications = <<>>
    /\ tagLists = <<>>
    /\ tagObjs = <<>>
    /\ held = NoHeld
    /\ last = NoLast
    /\ eb_backends = [r \in Regions |-> None]
    /\ backends = <<>>
    /\ refs = [k \in Callers |-> NoRef]
    /\ threads = [t \in Callers |-> Idle]

CreateApplication(application_name) ==
    LET r == create_application(applications, application_name) IN
    /\ applications' = r.apps
    /\ last' = Call("create_application", r)
    /\ UNCHANGED <<region, tagLists, tagObjs, held>>
    /\ UNCHANGED <<dirvars, threads>>

\* keep: whether the caller keeps the Environment returned ("env"), together
\* with its Application ("app"), or drops it ("no"); its arn is read right
\* after the creation.  A refused call is taken once, for tags and keep do not
\* matter to it
CreateEnvironment(application_name, environment_name, stack_name, tags, keep) ==
    LET l == CASE tags.kind = "none" -> None
               [] tags.kind = "new" -> Len(tagLists) + 1
               [] tags.kind = "alias" -> tags.list
        r == create_environment(applications, application_name, environment_name,
                                stack_name, l)
        n == Len(tagObjs)
    IN
    /\ applications' = r.apps
    /\ last' = [Call("create_environment", r) EXCEPT
                   !.res = IF r.err = NoError
                           THEN <<DictIdx(r.apps, application_name),
                                  Len(DictGet(r.apps, application_name).environments)>>
                           ELSE <<0, 0>>]
    /\ IF r.err = NoError
       THEN /\ IF tags.kind = "new"
               THEN /\ Len(tagLists) < MaxLists
                    /\ n + Len(tags.tags) <= MaxTagObjs
                    /\ tagObjs' = tagObjs \o tags.tags
                    /\ tagLists' = Append(tagLists, [p \in 1..Len(tags.tags) |-> n + p])
               ELSE UNCHANGED <<tagLists, tagObjs>>
            /\ IF keep = "no"
               THEN UNCHANGED held
               ELSE held' = [kept |-> TRUE, application |-> application_name,
                             environment_name |-> environment_name,
                             arn |-> environment_arn(region,
                                        DictGet(DictGet(r.apps, application_name).environments,
                                                environment_name)),
                             holds_app |-> (keep = "app"), app_alive |-> TRUE]
       ELSE /\ tags.kind = "none" /\ keep = "no"
            /\ UNCHANGED <<tagLists, tagObjs, held>>
    /\ UNCHANGED region
    /\ UNCHANGED <<dirvars, threads>>

\* a refused call is taken once, for the tags do not matter to it
UpdateTags(resource_arn, tags_to_add, tags_to_remove) ==
    LET h == update_tags_for_resource(region, applications, tagObjs, tagLists,
                                      resource_arn, tags_to_add, tags_to_remove)
    IN
    /\ Len(h.objs) <= MaxTagObjs
    /\ h.err = ResourceNotFoundException => tags_to_add = <<>> /\ tags_to_remove = <<>>
    /\ tagObjs' = h.objs
    /\ tagLists' = h.lists
    /\ last' = [Call("update_tags_for_resource", h) EXCEPT
                   !.res = h.res, !.appended = h.appended,
                   !.overwritten = h.overwritten, !.removed = h.removed]
    /\ UNCHANGED <<region, applications, held>>
    /\ UNCHANGED <<dirvars, threads>>

ListTags(resource_arn) ==
    LET r == list_tags_for_resource(region, applications, resource_arn) IN
    /\ last' = [Call("list_tags_for_resource", r) EXCEPT
                   !.res = r.res, !.returned = r.ResourceTags]
    /\ UNCHANGED <<region, applications, tagLists, tagObjs, held>>
    /\ UNCHANGED <<dirvars, threads>>

DescribeApplications ==
    /\ last' = [NoLast EXCEPT !.op = "describe_applications",
                              !.returned = describe_applications(applications)]
    /\ UNCHANGED <<region, applications, tagLists, tagObjs, held>>
    /\ UNCHANGED <<dirvars, threads>>

DescribeEnvironments ==
    /\ last' = [NoLast EXCEPT !.op = "describe_environments",
                              !.returned = describe_environments(applications)]
    /\ UNCHANGED <<region, applications, tagLists, tagObjs, held>>
    /\ UNCHANGED <<dirvars, threads>>

\* after reset nothing of the backend refers to the old applications: one the
\* caller does not hold is collected, at once or when the collector runs; the
\* tag lists of the dropped environments go with them
Reset ==
    LET r == reset(region, applications) IN
    /\ region' = r.region
    /\ applications' = r.applications
    /\ tagLists' = <<>>
    /\ tagObjs' = <<>>
    /\ \E alive \in BOOLEAN :
          /\ held.kept /\ held.app_alive /\ held.holds_app => alive
          /\ ~(held.kept /\ held.app_alive) => ~alive
          /\ held' = [held EXCEPT !.app_alive = alive]
    /\ last' = [NoLast EXCEPT !.op = "reset", !.dropped = NumEnvs(applications)]
    /\ UNCHANGED <<dirvars, threads>>

\* the applications and their environments in full; the caller passes tags to
\* the first environment it tags only
Next ==
    \/ \E a \in AppNames : CreateApplication(a)
    \/ \E a \in AppNames, e \in EnvNames, s \in Stacks, t \in TagsArgs(FewTags, 1, {}) :
          /\ t.kind = "new" => tagLists = <<>>
          /\ CreateEnvironment(a, e, s, t, "no")
    \/ \E arn \in Arns, add \in AddArgs(FewTags, 1, {}) : UpdateTags(arn, add, <<>>)
    \/ \E arn \in Arns : ListTags(arn)
    \/ DescribeApplications
    \/ DescribeEnvironments
    \/ Reset

Spec == Init /\ [][Next]_vars

\* one environment and its tags in full
NextTags ==
    \/ \E a \in OneApp : CreateApplication(a)
    \/ \E a \in OneApp, e \in OneEnv, s \in Stacks,
          t \in TagsArgs(NewTags, MaxInitTags, 1..Len(tagLists)) :
          CreateEnvironment(a, e, s, t, "no")
    \/ \E arn \in ArnsOf(OneApp, OneEnv),
          add \in AddArgs(NewTags, MaxAdd, 1..Len(tagObjs)),
          rem \in SeqsUpTo(Keys, MaxRemove) : UpdateTags(arn, add, rem)
    \/ \E arn \in ArnsOf(OneApp, OneEnv) : ListTags(arn)
    \/ Reset

SpecTags == Init /\ [][NextTags]_vars

\* a caller that keeps the environments it created
NextHeld ==
    \/ \E a \in AppNames : CreateApplication(a)
    \/ \E a \in AppNames, e \in EnvNames, s \in Stacks, k \in {"no", "env", "app"} :
          CreateEnvironment(a, e, s, NoTags, k)
    \/ Reset

SpecHeld == Init /\ [][NextHeld]_vars

\* two environments of one application and a caller that passes the lists
\* and the tag dicts it passed before again
TwoValueTags == [key : FewKeys, value : Values]

NextAlias ==
    \/ \E a \in OneApp : CreateApplication(a)
    \/ \E a \in OneApp, e \in EnvNames, s \in Stacks,
          t \in TagsArgs(FewTags, 1, 1..Len(tagLists)) :
          CreateEnvironment(a, e, s, t, "no")
    \/ \E arn \in ArnsOf(OneApp, EnvNames),
          add \in AddArgs(TwoValueTags, 1, 1..Len(tagObjs)),
          rem \in SeqsUpTo(FewKeys, MaxRemove) : UpdateTags(arn, add, rem)

SpecAlias == Init /\ [][NextAlias]_vars

\* the callers of the BackendDict: each looks the backend of a region up and
\* keeps the reference; the calls go through the references kept
GetBackend(k, reg) ==
    LET g == backend_get(eb_backends, backends, reg) IN
    /\ eb_backends' = g.table
    /\ backends' = g.heap
    /\ refs' = [refs EXCEPT ![k] = [region |-> reg, id |-> g.id]]
    /\ last' = [NoLast EXCEPT !.op = "eb_backends"]
    /\ UNCHANGED <<region, applications, tagLists, tagObjs, held, threads>>

RefCreateApplication(k, application_name) ==
    /\ refs[k].id # None
    /\ LET self == backends[refs[k].id]
           r == create_application(self.applications, application_name)
       IN  /\ backends' = [backends EXCEPT ![refs[k].id].applications = r.apps]
           /\ last' = Call("create_application", r)
    /\ UNCHANGED <<region, applications, tagLists, tagObjs, held, eb_backends, refs, threads>>

\* self.__dict__ = {}; self.__init__(region): the object stays, its fields
\* are set anew
RefReset(k) ==
    /\ refs[k].id # None
    /\ LET self == backends[refs[k].id]
           r == reset(self.region, self.applications)
       IN  /\ backends' = [backends EXCEPT ![refs[k].id] =
                              [region |-> r.region, applications |-> r.applications]]
           /\ last' = [NoLast EXCEPT !.op = "reset", !.dropped = Len(self.applications)]
    /\ UNCHANGED <<region, applications, tagLists, tagObjs, held, eb_backends, refs, threads>>

NextDir ==
    \/ \E k \in Callers, reg \in Regions : GetBackend(k, reg)
    \/ \E k \in Callers, a \in AppNames : RefCreateApplication(k, a)
    \/ \E k \in Callers : RefReset(k)

SpecDir == Init /\ [][NextDir]_vars

\* Threads calling one backend: nothing in models.py holds a lock, so a
\* thread can be suspended between the membership test of a create_* and the
\* insertion that follows it
Returned(t, err) == [threads[t] EXCEPT !.pc = "returned", !.err = err]

\* line 91: the membership test of create_application
BeginCreateApplication(t, application_name) ==
    /\ threads[t].pc \in {"idle", "returned"}
    /\ threads' = [threads EXCEPT ![t] =
          IF DictHas(applications, application_name)
          THEN [Idle EXCEPT !.pc = "returned", !.op = "create_application",
                            !.application_name = application_name,
                            !.err = InvalidParameterValueError]
          ELSE [Idle EXCEPT !.pc = "95", !.op = "create_application",
                            !.application_name = application_name]]
    /\ UNCHANGED <<region, applications, tagLists, tagObjs, held, last, dirvars>>

\* lines 95-97: the new Application is stored under the name; a thread that
\* looked the Application of that name up before holds the replaced object
FinishCreateApplication(t) ==
    /\ threads[t].pc = "95"
    /\ applications' = insert_application(applications, threads[t].application_name)
    /\ threads' = [u \in Callers |->
          IF u = t THEN Returned(t, NoError)
          ELSE IF /\ threads[u].pc = "49"
                  /\ threads[u].application_name = threads[t].application_name
               THEN [threads[u] EXCEPT !.orphan = TRUE]
               ELSE threads[u]]
    /\ UNCHANGED <<region, tagLists, tagObjs, held, last, dirvars>>

\* lines 105-110 of EBBackend.create_environment and line 47 of
\* Application.create_environment: the lookup and the membership test
BeginCreateEnvironment(t, application_name, environment_name) ==
    /\ threads[t].pc \in {"idle", "returned"}
    /\ threads' = [threads EXCEPT ![t] =
          LET call == [Idle EXCEPT !.op = "create_environment",
                                   !.application_name = application_name,
                                   !.environment_name = environment_name]
          IN  IF ~DictHas(applications, application_name)
                 \/ DictHas(DictGet(applications, application_name).environments,
                            environment_name)
              THEN [call EXCEPT !.pc = "returned", !.err = InvalidParameterValueError]
              ELSE [call EXCEPT !.pc = "49"]]
    /\ UNCHANGED <<region, applications, tagLists, tagObjs, held, last, dirvars>>

\* lines 49-58: the new Environment is stored in the Application the thread
\* looked up, which is the registered one unless it was replaced since
FinishCreateEnvironment(t, stack_name) ==
    /\ threads[t].pc = "49"
    /\ applications' =
          IF threads[t].orphan THEN applications
          ELSE [applications EXCEPT ![DictIdx(applications, threads[t].application_name)].value =
                   insert_environment(@, threads[t].environment_name, stack_name, None)]
    /\ threads' = [threads EXCEPT ![t] = Returned(t, NoError)]
    /\ UNCHANGED <<region, tagLists, tagObjs, held, last, dirvars>>

NextThreads ==
    \/ \E t \in Callers, a \in OneApp : BeginCreateApplication(t, a)
    \/ \E t \in Callers : FinishCreateApplication(t)
    \/ \E t \in Callers, a \in OneApp, e \in EnvNames : BeginCreateEnvironment(t, a, e)
    \/ \E t \in Callers, s \in Stacks : FinishCreateEnvironment(t, s)

SpecThreads == Init /\ [][NextThreads]_vars

(***************************************************************************)
(* What the properties speak of                                            *)
(***************************************************************************)
Registered(apps) == {apps[i].key : i \in 1..Len(apps)}

AppNamed(apps, a) == apps[CHOOSE i \in 1..Len(apps) : apps[i].key = a].value

EnvNamesOf(app) == {app.environments[j].key : j \in 1..Len(app.environments)}

\* the positions <<i, j>> of the registered environments
Positions(apps) ==
    {p \in (1..Len(apps)) \X (1..Cardinality(EnvNames)) :
        p[2] <= Len(apps[p[1]].value.environments)}

\* identifier() of the registered environment at a position
IdentifierAt(apps, p) ==
    make_arn(region, ACCOUNT_ID, "environment",
             apps[p[1]].value.application_name \o "/"
                 \o EnvAt(apps, p).environment_name)

\* the (key, value) pairs of the tag sequence with id l
TagSeq(objs, lists, l) == [p \in 1..Len(lists[l]) |-> objs[lists[l][p]]]

(***************************************************************************)
(* C1  createApplication(A) for an unregistered A adds exactly one         *)
(* Application named A, with no environments, after the registered ones;   *)
(* for a registered A it raises InvalidParameterValueError ("already       *)
(* exists", the DuplicateResource kind) and the applications, their        *)
(* environments and the tags are as before.                                *)
(***************************************************************************)
C1_CreateApplication ==
    [][last'.op = "create_application" => \A a \in AppNames : CreateApplication(a) =>
          IF a \in Registered(applications)
          THEN /\ last'.err = InvalidParameterValueError
               /\ last'.msg = AlreadyExists
               /\ applications' = applications
               /\ tagLists' = tagLists /\ tagObjs' = tagObjs
          ELSE /\ last'.err = NoError
               /\ Len(applications') = Len(applications) + 1
               /\ SubSeq(applications', 1, Len(applications)) = applications
               /\ applications'[Len(applications')] =
                     [key |-> a,
                      value |-> [application_name |-> a, environments |-> <<>>]]
               /\ tagLists' = tagLists /\ tagObjs' = tagObjs]_vars

\* a second create_application was refused while the first one's
\* environment is registered
C1_Witness ==
    /\ last.op = "create_application"
    /\ last.err = InvalidParameterValueError
    /\ NumEnvs(applications) > 0

(***************************************************************************)
(* C2  createEnvironment(A, E, ..) on a registered A succeeds when A has   *)
(* no environment E, whatever the other applications have, and adds E to   *)
(* A only; when A has E it raises the InvalidParameterValueError of        *)
(* Application.create_environment and every environment, E of A with its   *)
(* solution stack and tags included, is as before.                         *)
(***************************************************************************)
C2_CreateEnvironment ==
    [][last'.op = "create_environment" =>
       \A a \in AppNames, e \in EnvNames, s \in Stacks, t \in TagsArgs(FewTags, 1, {}) :
          (CreateEnvironment(a, e, s, t, "no") /\ a \in Registered(applications)) =>
             IF e \in EnvNamesOf(AppNamed(applications, a))
             THEN /\ last'.err = InvalidParameterValueError
                  /\ last'.msg = ""
                  /\ applications' = applications
                  /\ tagLists' = tagLists /\ tagObjs' = tagObjs
             ELSE /\ last'.err = NoError
                  /\ Registered(applications') = Registered(applications)
                  /\ \A b \in Registered(applications) \ {a} :
                        AppNamed(applications', b) = AppNamed(applications, b)
                  /\ LET old == AppNamed(applications, a).environments
                         new == AppNamed(applications', a).environments
                     IN  /\ Len(new) = Len(old) + 1
                         /\ SubSeq(new, 1, Len(old)) = old
                         /\ new[Len(new)].key = e
                         /\ new[Len(new)].value.environment_name = e
                         /\ new[Len(new)].value.application = a
                         /\ new[Len(new)].value.solution_stack_name = s
                         /\ new[Len(new)].value.tags =
                               (IF t.kind = "none" THEN None ELSE Len(tagLists'))
                         /\ t.kind = "new" =>
                               TagSeq(tagObjs', tagLists', Len(tagLists')) = t.tags]_vars

\* the second create_environment of one name was refused, and the name is
\* registered under two applications
C2_Witness ==
    /\ last.op = "create_environment"
    /\ last.err = InvalidParameterValueError
    /\ last.msg = ""
    /\ \E e \in EnvNames : \A a \in AppNames :
          /\ a \in Registered(applications)
          /\ e \in EnvNamesOf(AppNamed(applications, a))

ScanBefore(p, q) == p[1] < q[1] \/ (p[1] = q[1] /\ p[2] <= q[2])

C4_FindEnvironment ==
    [][last'.op \in {"update_tags_for_resource", "list_tags_for_resource"} =>
       \A arn \in Arns :
          (ListTags(arn) \/ \E add \in AddArgs(FewTags, 1, {}) : UpdateTags(arn, add, <<>>)) =>
             LET matching == {p \in Positions(applications) :
                                 IdentifierAt(applications, p) = arn}
             IN  IF matching # {}
                 THEN /\ last'.err # ResourceNotFoundException
                      /\ last'.res \in matching
                      /\ \A q \in matching : ScanBefore(last'.res, q)
                 ELSE /\ last'.err = ResourceNotFoundException
                      /\ last'.res = <<0, 0>>
                      /\ applications' = applications
                      /\ tagLists' = tagLists /\ tagObjs' = tagObjs]_vars

\* a tag was added through an identifier that two registered environments have
C4_Witness ==
    /\ last.op = "update_tags_for_resource"
    /\ last.err = NoError
    /\ last.appended = 1
    /\ \E q \in Positions(applications) :
          /\ q # last.res
          /\ IdentifierAt(applications, q) = IdentifierAt(applications, last.res)

(***************************************************************************)
(* C5  No two registered environments have the same identifier (as         *)
(* claimed, for names that may contain "/").                               *)
(***************************************************************************)
C5_UniqueIdentifiers ==
    \A p \in Positions(applications), q \in Positions(applications) :
       p # q => IdentifierAt(applications, p) # IdentifierAt(applications, q)

(***************************************************************************)
(* C8  reset leaves no application and no environment and keeps the        *)
(* region; after it no identifier resolves, and at any time an identifier  *)
(* resolves only if an environment with it is registered.                  *)
(***************************************************************************)
C8_Reset ==
    [][/\ (last'.op = "reset" /\ Reset) =>
             /\ region' = region
             /\ applications' = <<>>
             /\ describe_environments(applications') = <<>>
             /\ \A arn \in Arns :
                   /\ list_tags_for_resource(region', applications', arn).err
                         = ResourceNotFoundException
                   /\ update_tags_for_resource(region', applications', tagObjs',
                                               tagLists', arn, <<>>, <<>>).err
                         = ResourceNotFoundException
        /\ \A arn \in Arns :
              (ListTags(arn) /\ last'.err # ResourceNotFoundException) =>
                 \E p \in Positions(applications) : IdentifierAt(applications, p) = arn
      ]_vars

\* a registry with two environments of two applications was reset
C8_Witness ==
    /\ last.op = "reset"
    /\ last.dropped >= 2
    /\ applications = <<>>

(***************************************************************************)
(* The tag sequence of an environment, as the properties read it           *)
(***************************************************************************)
\* the (key, value) pairs of an environment's tags; none without a list
EnvTags(objs, lists, env) ==
    IF env.tags = None THEN <<>> ELSE TagSeq(objs, lists, env.tags)

\* the (key, value) pairs of tags_to_add
ArgTags(objs, tags_to_add) ==
    [i \in 1..Len(tags_to_add) |->
        [key |-> tag_key(objs, tags_to_add[i]), value |-> tag_value(objs, tags_to_add[i])]]

KeysIn(tags) == {tags[p].key : p \in 1..Len(tags)}

FirstWith(tags, k) ==
    CHOOSE p \in 1..Len(tags) : tags[p].key = k /\ \A q \in 1..(p - 1) : tags[q].key # k

LastWith(tags, k) ==
    CHOOSE p \in 1..Len(tags) : tags[p].key = k /\ \A q \in (p + 1)..Len(tags) : tags[q].key # k

\* the keys of added that are not in old, each once, in the order of added
RECURSIVE NewKeys(_, _, _)
NewKeys(old, added, i) ==
    IF i > Len(added) THEN <<>>
    ELSE IF added[i].key \in KeysIn(old) \cup KeysIn(SubSeq(added, 1, i - 1))
         THEN NewKeys(old, added, i + 1)
         ELSE <<added[i].key>> \o NewKeys(old, added, i + 1)

\* new is old with the tags of added upserted: an existing key keeps its
\* place and takes the added value, a new key goes to the end
Upserted(old, added, new) ==
    LET fresh == NewKeys(old, added, 1) IN
    /\ Len(new) = Len(old) + Len(fresh)
    /\ \A p \in 1..Len(old) :
          /\ new[p].key = old[p].key
          /\ new[p].value =
                IF old[p].key \in KeysIn(added) /\ FirstWith(old, old[p].key) = p
                THEN added[LastWith(added, old[p].key)].value
                ELSE old[p].value
    /\ \A p \in 1..Len(fresh) :
          /\ new[Len(old) + p].key = fresh[p]
          /\ new[Len(old) + p].value = added[LastWith(added, fresh[p])].value

(***************************************************************************)
(* C6  updateTags(id, tagsToAdd, []) on a resolvable id raises nothing     *)
(* and upserts every tag of tagsToAdd: the value of an existing key is     *)
(* overwritten in place, a new key is appended, the other tags keep place  *)
(* and value (as claimed, for every registered environment).               *)
(***************************************************************************)
C6_Upsert ==
    [][last'.op = "update_tags_for_resource" =>
       \A arn \in ArnsOf(OneApp, OneEnv), add \in AddArgs(NewTags, MaxAdd, 1..Len(tagObjs)) :
          (UpdateTags(arn, add, <<>>) /\ last'.res # <<0, 0>>) =>
             /\ last'.err = NoError
             /\ Upserted(EnvTags(tagObjs, tagLists, EnvAt(applications, last'.res)),
                         ArgTags(tagObjs, add),
                         EnvTags(tagObjs', tagLists', EnvAt(applications, last'.res)))]_vars

(***************************************************************************)
(* C7  updateTags(id, [], [k]) on a resolvable id, for a key k that no tag *)
(* of the environment has, raises nothing and leaves the tags as they      *)
(* were (as claimed, for every registered environment).                    *)
(***************************************************************************)
C7_RemoveAbsent ==
    [][last'.op = "update_tags_for_resource" =>
       \A arn \in ArnsOf(OneApp, OneEnv), k \in Keys :
          (/\ UpdateTags(arn, <<>>, <<k>>)
           /\ last'.res # <<0, 0>>
           /\ k \notin KeysIn(EnvTags(tagObjs, tagLists, EnvAt(applications, last'.res)))) =>
             /\ last'.err = NoError
             /\ tagLists' = tagLists /\ tagObjs' = tagObjs]_vars

(***************************************************************************)
(* C9  The tags of every registered environment have pairwise different    *)
(* keys (as claimed, whatever tag list create_environment was given).      *)
(***************************************************************************)
C9_UniqueKeys ==
    \A p \in Positions(applications) :
       LET tags == EnvTags(tagObjs, tagLists, EnvAt(applications, p))
       IN  \A i \in 1..Len(tags), j \in 1..Len(tags) : i # j => tags[i].key # tags[j].key

(***************************************************************************)
(* C10  identifier() of an Environment the caller keeps can be computed    *)
(* at every later point and is the string it was right after creation (as  *)
(* claimed, a reset of the registry included).                             *)
(***************************************************************************)
C10_IdentifierStable == held.kept => held_environment_arn = held.arn

(***************************************************************************)
(* C11  describe_environments lists every registered environment once, in  *)
(* (application order, environment order), and describe_applications the   *)
(* applications in their order; these orders are the orders of the         *)
(* successful creations: a new application goes after the registered       *)
(* ones, a new environment after the environments of its application and   *)
(* before those of the applications registered later, and no other call    *)
(* changes either enumeration.                                             *)
(***************************************************************************)
\* the number of environments of the applications before the i-th
RECURSIVE EnvsBefore(_, _)
EnvsBefore(apps, i) ==
    IF i <= 1 THEN 0
    ELSE EnvsBefore(apps, i - 1) + Len(apps[i - 1].value.environments)

\* the place in (application order, environment order) of the position p
RankOf(apps, p) == EnvsBefore(apps, p[1]) + p[2]

AppKeys(apps) == [i \in 1..Len(apps) |-> apps[i].key]

C11_EnumerationOrder ==
    [][LET old == describe_environments(applications)
           new == describe_environments(applications')
       IN  /\ Len(new) = Cardinality(Positions(applications'))
           /\ \A p \in Positions(applications') :
                 new[RankOf(applications', p)] = EnvAt(applications', p)
           /\ \A i \in 1..Len(applications') :
                 describe_applications(applications')[i].application_name
                    = AppKeys(applications')[i]
           /\ (last'.op = "create_application" /\ last'.err = NoError) =>
                 /\ SubSeq(AppKeys(applications'), 1, Len(applications))
                       = AppKeys(applications)
                 /\ Len(applications') = Len(applications) + 1
                 /\ new = old
           /\ (last'.op = "create_environment" /\ last'.err = NoError) =>
                 LET k == RankOf(applications', last'.res) IN
                 /\ AppKeys(applications') = AppKeys(applications)
                 /\ k = EnvsBefore(applications, last'.res[1] + 1) + 1
                 /\ new = SubSeq(old, 1, k - 1)
                             \o <<EnvAt(applications', last'.res)>>
                             \o SubSeq(old, k, Len(old))
           /\ (last'.op \in {"update_tags_for_resource", "list_tags_for_resource",
                             "describe_applications", "describe_environments"}
               \/ (last'.op # "reset" /\ last'.err # NoError)) =>
                 /\ new = old
                 /\ describe_applications(applications')
                       = describe_applications(applications)
           /\ last'.op = "describe_environments" => last'.returned = old
           /\ last'.op = "describe_applications" =>
                 last'.returned = describe_applications(applications)]_vars

\* an environment was created in the application registered first, which had
\* one already, while the application registered after it has environments
C11_Witness ==
    /\ last.op = "create_environment"
    /\ last.err = NoError
    /\ last.res = <<1, 2>>
    /\ Len(applications) = 2
    /\ Len(applications[2].value.environments) >= 1

(***************************************************************************)
(* C12  listTags(id) for a resolvable id raises nothing, returns the tag   *)
(* sequence the environment has at that point (the empty sequence for an   *)
(* environment without tags) and changes no application, no environment    *)
(* and no tag (as claimed, for every registered environment).              *)
(***************************************************************************)
C12_ListTags ==
    [][last'.op = "list_tags_for_resource" =>
       \A arn \in Arns :
          (ListTags(arn) /\ last'.res # <<0, 0>>) =>
             /\ last'.err = NoError
             /\ IdentifierAt(applications, last'.res) = arn
             /\ last'.returned # None
             /\ TagSeq(tagObjs', tagLists', last'.returned)
                   = EnvTags(tagObjs, tagLists, EnvAt(applications, last'.res))
             /\ applications' = applications
             /\ tagLists' = tagLists /\ tagObjs' = tagObjs]_vars

(***************************************************************************)
(* C13  A call other than reset removes no application and no environment  *)
(* and replaces none: every application keeps its place and name, every    *)
(* environment its place, name, solution stack and tag list, and an        *)
(* identifier that resolved before the call resolves to the same           *)
(* environment after it (as claimed, for names that may contain "/").      *)
(***************************************************************************)
C13_CreateOnly ==
    [][last'.op # "reset" =>
          /\ Registered(applications) \subseteq Registered(applications')
          /\ \A i \in 1..Len(applications) :
                LET old == applications[i].value
                    new == applications'[i].value
                IN  /\ applications'[i].key = applications[i].key
                    /\ new.application_name = old.application_name
                    /\ EnvNamesOf(old) \subseteq EnvNamesOf(new)
                    /\ SubSeq(new.environments, 1, Len(old.environments))
                          = old.environments
          /\ \A arn \in Arns :
                LET p == find_environment_by_arn(region, applications, arn)
                IN  p # <<0, 0>> =>
                       find_environment_by_arn(region', applications', arn) = p]_vars

(***************************************************************************)
(* C14  Every call on the backend returns or raises one of the two         *)
(* exceptions of the service, InvalidParameterValueError (the name         *)
(* collisions) or ResourceNotFoundException (as claimed, the calls on an   *)
(* environment created without the tags argument included).                *)
(***************************************************************************)
C14_ErrorTaxonomy ==
    last.err \in {NoError, InvalidParameterValueError, ResourceNotFoundException}

(***************************************************************************)
(* C15  eb_backends has one EBBackend per region, made at the first        *)
(* lookup: every reference a caller got for a region is that object and    *)
(* its region is the one asked for; reset through one reference keeps the  *)
(* object and its region and empties it for every reference to it; an      *)
(* application created through one reference is registered for every       *)
(* reference to the same object, and no call changes the backend of        *)
(* another region.                                                         *)
(***************************************************************************)
\* the backend a caller sees through the reference it kept
Seen(heap, ref) == heap[ref.id]

SameBackend(k1, k2) == refs[k1].id # None /\ refs[k2].id = refs[k1].id

C15_RegistryIdentity ==
    [][/\ \A reg \in Regions :
             eb_backends'[reg] # None => backends'[eb_backends'[reg]].region = reg
       /\ \A k \in Callers :
             refs'[k].id # None => refs'[k].id = eb_backends'[refs'[k].region]
       /\ \A k1 \in Callers, k2 \in Callers :
             (refs'[k1].id # None /\ refs'[k2].id # None) =>
                (refs'[k1].id = refs'[k2].id <=> refs'[k1].region = refs'[k2].region)
       /\ \A i \in 1..Len(backends) : backends'[i].region = backends[i].region
       /\ last'.op = "reset" => \A k \in Callers : RefReset(k) =>
             /\ eb_backends' = eb_backends /\ refs' = refs
             /\ \A k2 \in Callers :
                   SameBackend(k, k2) => Seen(backends', refs'[k2]).applications = <<>>
             /\ \A i \in 1..Len(backends) : i # refs[k].id => backends'[i] = backends[i]
       /\ last'.op = "create_application" =>
             \A k \in Callers, a \in AppNames : RefCreateApplication(k, a) =>
                /\ eb_backends' = eb_backends /\ refs' = refs
                /\ \A k2 \in Callers :
                      SameBackend(k, k2) =>
                         a \in Registered(Seen(backends', refs'[k2]).applications)
                /\ \A i \in 1..Len(backends) : i # refs[k].id => backends'[i] = backends[i]
      ]_vars

\* two callers hold the backend of one region, which was just reset and is
\* empty, while the backend of the other region has its application
C15_Witness ==
    /\ last.op = "reset"
    /\ last.dropped > 0
    /\ SameBackend("c1", "c2")
    /\ Seen(backends, refs["c1"]).applications = <<>>
    /\ \E i \in 1..Len(backends) : backends[i].applications # <<>>

(***************************************************************************)
(* C16  After updateTags(id, tagsToAdd, tagsToRemove) on a resolvable id   *)
(* no tag of the environment has a key of tagsToRemove, and every key of   *)
(* tagsToAdd that is not in tagsToRemove is the key of a tag whose value   *)
(* is that of the key's last occurrence in tagsToAdd (as claimed, for      *)
(* every registered environment).                                          *)
(***************************************************************************)
C16_AddThenRemove ==
    [][last'.op = "update_tags_for_resource" =>
       \A arn \in ArnsOf(OneApp, OneEnv),
          add \in AddArgs(NewTags, MaxAdd, 1..Len(tagObjs)),
          rem \in SeqsUpTo(Keys, MaxRemove) :
          (UpdateTags(arn, add, rem) /\ last'.res # <<0, 0>>) =>
             LET added == ArgTags(tagObjs, add)
                 removed == {rem[i] : i \in 1..Len(rem)}
                 new == EnvTags(tagObjs', tagLists', EnvAt(applications, last'.res))
             IN  /\ KeysIn(new) \cap removed = {}
                 /\ \A k \in KeysIn(added) \ removed :
                       \E p \in 1..Len(new) :
                          /\ new[p].key = k
                          /\ new[p].value = added[LastWith(added, k)].value]_vars

(***************************************************************************)
(* C17  Two threads that ran create_application for one name, or           *)
(* create_environment for one application and environment name, did not    *)
(* both return normally, and no call replaces a registered Application or  *)
(* Environment: every one keeps its place and its environments (as         *)
(* claimed, for threads that interleave between the membership test and    *)
(* the insertion).                                                         *)
(***************************************************************************)
BothReturned(t1, t2) ==
    /\ t1 # t2
    /\ threads[t1].pc = "returned" /\ threads[t2].pc = "returned"
    /\ threads[t1].op = threads[t2].op
    /\ threads[t1].application_name = threads[t2].application_name
    /\ threads[t1].environment_name = threads[t2].environment_name
    /\ threads[t1].err = NoError /\ threads[t2].err = NoError

C17_Serialized ==
    [][/\ \A i \in 1..Len(applications) :
             /\ applications'[i].key = applications[i].key
             /\ SubSeq(applications'[i].value.environments, 1,
                       Len(applications[i].value.environments))
                   = applications[i].value.environments
       /\ \A t1 \in Callers, t2 \in Callers : ~BothReturned(t1, t2)']_vars

(***************************************************************************)
(* C18  An updateTags that raises nothing changes the tags of the          *)
(* environment its identifier resolves to only: the tags of every other    *)
(* environment, and the applications with the names, solution stacks and   *)
(* tag lists of their environments, are as before (as claimed, for         *)
(* callers that pass one list or one tag dict more than once).             *)
(***************************************************************************)
C18_Frame ==
    [][(last'.op = "update_tags_for_resource" /\ last'.err = NoError) =>
          /\ applications' = applications
          /\ \A q \in Positions(applications) \ {last'.res} :
                EnvTags(tagObjs', tagLists', EnvAt(applications, q))
                   = EnvTags(tagObjs, tagLists, EnvAt(applications, q))]_vars

(***************************************************************************)
(* C19  Every application is registered under its own name and has the     *)
(* backend's region; every environment is stored under its own name in an  *)
(* application whose name is the environment's application_name, and has   *)
(* the backend's region; so each environment listed by                     *)
(* describe_environments is listed once and belongs to one registered      *)
(* application.                                                            *)
(***************************************************************************)
C19_Ownership ==
    LET listed == describe_environments(applications) IN
    /\ \A i \in 1..Len(applications) :
          LET app == applications[i].value IN
          /\ app.application_name = applications[i].key
          /\ app_region(region, app) = region
          /\ \A j \in 1..Len(app.environments) :
                LET env == app.environments[j].value IN
                /\ env.environment_name = app.environments[j].key
                /\ env_application_name(env) = app.application_name
                /\ env_region(region, env) = app_region(region, app)
                /\ Cardinality({k \in 1..Len(listed) :
                                   /\ env_application_name(listed[k]) = app.application_name
                                   /\ listed[k].environment_name = app.environments[j].key}) = 1
    /\ \A k \in 1..Len(listed) :
          Cardinality({i \in 1..Len(applications) :
                          /\ applications[i].key = env_application_name(listed[k])
                          /\ listed[k].environment_name \in EnvNamesOf(applications[i].value)}) = 1

\* two applications with two environments each, two of them with one
\* identifier
C19_Witness ==
    /\ NumEnvs(applications) = 4
    /\ ~C5_UniqueIdentifiers
====
